---- MODULE Spec2Model ----
(***************************************************************************)
(* A model of the protocol core of the RXPad driver (src/xpad.rs): the     *)
(* initialization sequencer, the output scheduler and the rumble encoder   *)
(* of one controller session, together with the transport that accepts,    *)
(* rejects and completes the output transfers.                             *)
(***************************************************************************)
EXTENDS Integers, Sequences, FiniteSets, TLC

VARIABLES
    xpad,       \* the session: the fields of struct UsbXpad
    pending,    \* the effect packet stored last and not yet transmitted
    inflight,   \* output transfers the transport accepted and has not completed
    out,        \* what the last output-side operation returned and submitted
    returned,   \* template indices returned by xpad_prepare_next_init_packet
    prev_init,  \* serial of the last returned init packet, -1 when not tracked
    fx_since,   \* rumble packets stamped since that init packet
    none_seen,  \* calls of the sequencer that returned nothing (saturating)
    transmitted,\* template indices of the init packets the transport accepted
    params,     \* the module parameters (the AtomicBool statics)
    urb_in,     \* the receive transfer is submitted
    inp,        \* what the last inbound completion was given and did
    pc,         \* where each caller of the output side stands, and in what call
    lock        \* the holder of each Mutex of the session, 0 when it is free

outvars == <<pending, inflight, out, returned, prev_init, fx_since,
             none_seen, transmitted>>

invars == <<params, urb_in, inp>>

lockvars == <<pc, lock>>

vars == <<xpad, pending, inflight, out, returned, prev_init, fx_since,
          none_seen, transmitted, params, urb_in, inp, pc, lock>>

-----------------------------------------------------------------------------
(* Bounds of the model *)

\* The previous init serial is remembered across at most MaxGap rumble stamps.
MaxGap == 2

\* Calls of the exhausted sequencer that are counted.
MaxNoneSeen == 2

\* Callers that may be inside the output side of one session at a time.
NumThreads == 2

\* In Spec, rumble commands are issued while the output serial is below
\* MaxStamps; SpecSerial issues them without a cap.
MaxStamps == 3

-----------------------------------------------------------------------------
(* Static data *)

XTypes == {"Xbox", "Xbox360", "Xbox360W", "XboxOne"}

\* Device identities a session is created for (vendor id, product id).
Vendors == {1, 2}
Products == {1, 2}

\* The fixed length of a packet.
XPAD_PKT_LEN == 64

\* GIP command tags and option bits.
GIP_CMD_ACK == 1
GIP_CMD_VIRTUAL_KEY == 7
GIP_CMD_FIRMWARE == 12
GIP_CMD_RUMBLE == 9
GIP_CMD_INPUT == 32
GIP_OPT_ACK == 16
GIP_OPT_INTERNAL == 32
GIP_MOTOR_ALL == 15
GIP_PL_LEN(n) == n

PacketTypes == {"Xb", "Xbe1", "Xbe2FwOld", "Xbe2Fw5Early", "Xbe2Fw511"}

\* The discriminant of a PacketType.
PacketTypeValue(pt) ==
    CASE pt = "Xb" -> 0
      [] pt = "Xbe1" -> 1
      [] pt = "Xbe2FwOld" -> 2
      [] pt = "Xbe2Fw5Early" -> 3
      [] pt = "Xbe2Fw511" -> 4

\* XPAD_BTN_PAD: the buttons of d-pad left, right, up, down, in this order.
XPAD_BTN_PAD ==
    << "BTN_TRIGGER_HAPPY1", "BTN_TRIGGER_HAPPY2",
       "BTN_TRIGGER_HAPPY3", "BTN_TRIGGER_HAPPY4" >>

\* XPAD_ABS: left stick, right stick.
XPAD_ABS == << "ABS_X", "ABS_Y", "ABS_RX", "ABS_RY" >>

\* XPAD_BTN_PADDLES: upper right, lower right, upper left, lower left.
XPAD_BTN_PADDLES ==
    << "BTN_TRIGGER_HAPPY5", "BTN_TRIGGER_HAPPY6",
       "BTN_TRIGGER_HAPPY7", "BTN_TRIGGER_HAPPY8" >>

\* The hat vectors of the guitar d-pad.
DPAD_MAPPING ==
    << <<0, -1>>, <<1, -1>>, <<1, 0>>, <<1, 1>>,
       <<0, 1>>, <<-1, 1>>, <<-1, 0>>, <<-1, -1>>,
       <<0, 0>> >>

\* The static list of initialization templates: vendor and product (0 is the
\* wildcard) and the payload, whose byte 2 is the serial placeholder.
XBOXONE_INIT_PACKETS ==
    << [vendor |-> 0, product |-> 0, data |-> <<5, 32, 0, 1, 0>>],
       [vendor |-> 1, product |-> 1, data |-> <<5, 32, 7, 15, 6>>],
       [vendor |-> 1, product |-> 0, data |-> <<10, 32, 0, 3, 0, 1, 20>>],
       [vendor |-> 0, product |-> 2, data |-> <<6, 32, 9, 2, 1, 0>>],
       [vendor |-> 0, product |-> 0, data |-> <<9, 0, 0, 9, 0, 15, 0, 0, 29, 29, 255, 0, 0>>],
       [vendor |-> 2, product |-> 1, data |-> <<10, 32, 0, 3, 0, 1, 21>>] >>

Magnitudes == {0, 1024, 1535}

\* The largest value of a rumble magnitude (u16).
U16_MAX == 65535
LedPatterns == {6}

-----------------------------------------------------------------------------
(* Initialization sequencer *)

\* Mutant: a template applies when its vendor or its product matches.
InitPacketAppliesEither(packet, x) ==
    \/ (packet.vendor = 0 \/ packet.vendor = x.vendor_id)
    \/ (packet.product = 0 \/ packet.product = x.product_id)

\* A template applies when its vendor is the wildcard or the device's, and
\* likewise its product.
InitPacketApplies(packet, x) ==
    /\ (packet.vendor = 0 \/ packet.vendor = x.vendor_id)
    /\ (packet.product = 0 \/ packet.product = x.product_id)

\* The while loop: the cursor moves past every template it looks at and stops
\* behind the first one that applies.
RECURSIVE ScanInit(_, _)
ScanInit(seq, x) ==
    IF seq < Len(XBOXONE_INIT_PACKETS)
    THEN LET packet == XBOXONE_INIT_PACKETS[seq + 1]
         IN IF InitPacketApplies(packet, x)
            THEN [some |-> TRUE, seq |-> seq + 1, idx |-> seq + 1]
            ELSE ScanInit(seq + 1, x)
    ELSE [some |-> FALSE, seq |-> seq, idx |-> 0]

\* Mutant: the serial is written one byte further.
StampSerialShifted(data, x) == [data EXCEPT ![4] = x.odata_serial % 256]

\* data[2] = odata_serial.fetch_add(1) as u8

StampSerial(data, x) == [data EXCEPT ![3] = x.odata_serial % 256]

\* Mutant: the cursor is rewound when the list is exhausted.
xpad_prepare_next_init_packet_rewind(x) ==
    LET r == ScanInit(x.init_seq, x)
    IN IF r.some
       THEN [some |-> TRUE, idx |-> r.idx,
             data |-> StampSerial(XBOXONE_INIT_PACKETS[r.idx].data, x),
             xpad |-> [x EXCEPT !.init_seq = r.seq,
                                !.odata_serial = (@ + 1) % 256]]
       ELSE [some |-> FALSE, idx |-> 0, data |-> <<>>,
             xpad |-> [x EXCEPT !.init_seq = 0]]

\* Mutant: every template the cursor passes consumes a serial.
xpad_prepare_next_init_packet_count_skipped(x) ==
    LET r == ScanInit(x.init_seq, x)
    IN IF r.some
       THEN [some |-> TRUE, idx |-> r.idx,
             data |-> StampSerial(XBOXONE_INIT_PACKETS[r.idx].data, x),
             xpad |-> [x EXCEPT !.init_seq = r.seq,
                                !.odata_serial = (@ + r.seq - x.init_seq) % 256]]
       ELSE [some |-> FALSE, idx |-> 0, data |-> <<>>,
             xpad |-> [x EXCEPT !.init_seq = r.seq,
                                !.odata_serial = (@ + r.seq - x.init_seq) % 256]]

\* Mutant: the serial is read and not incremented.
xpad_prepare_next_init_packet_nostep(x) ==
    LET r == ScanInit(x.init_seq, x)
    IN IF r.some
       THEN [some |-> TRUE, idx |-> r.idx,
             data |-> StampSerial(XBOXONE_INIT_PACKETS[r.idx].data, x),
             xpad |-> [x EXCEPT !.init_seq = r.seq]]
       ELSE [some |-> FALSE, idx |-> 0, data |-> <<>>,
             xpad |-> [x EXCEPT !.init_seq = r.seq]]


xpad_prepare_next_init_packet(x) ==
    LET r == ScanInit(x.init_seq, x)
    IN IF r.some
       THEN [some |-> TRUE, idx |-> r.idx,
             data |-> StampSerial(XBOXONE_INIT_PACKETS[r.idx].data, x),
             xpad |-> [x EXCEPT !.init_seq = r.seq,
                                !.odata_serial = (@ + 1) % 256]]
       ELSE [some |-> FALSE, idx |-> 0, data |-> <<>>,
             xpad |-> [x EXCEPT !.init_seq = r.seq]]

-----------------------------------------------------------------------------
(* Output scheduler *)

\* What an invocation of the scheduler does to the session x when the
\* transport answers the submission with `accept`: the new session, the return
\* value, the kind of packet passed to submit ("none" when submit is not
\* called) and what the sequencer returned.
\* Mutant: a stored effect packet is sent before the next init packet.
xpad_try_sending_next_out_packet_effect_first(x, accept) ==
    LET p == xpad_prepare_next_init_packet(x)
    IN IF pending # <<>>
       THEN [xpad |-> [x EXCEPT !.odata = pending.data],
             ret |-> IF accept THEN "ok" ELSE "submit_err",
             submit |-> pending.kind, accepted |-> accept,
             got_none |-> FALSE, idx |-> 0, data |-> <<>>]
       ELSE IF p.some
       THEN [xpad |-> [p.xpad EXCEPT !.odata = p.data],
             ret |-> IF accept THEN "ok" ELSE "submit_err",
             submit |-> "init", accepted |-> accept,
             got_none |-> FALSE, idx |-> p.idx, data |-> p.data]
       ELSE [xpad |-> p.xpad, ret |-> "ok", submit |-> "none",
             accepted |-> FALSE, got_none |-> TRUE, idx |-> 0, data |-> <<>>]

\* Mutant: a buffer that was filled once is taken for a transfer in progress.
xpad_try_sending_next_out_packet_busy_buffer(x, accept) ==
    LET p == xpad_prepare_next_init_packet(x)
    IN IF x.odata # <<>>
       THEN [xpad |-> x, ret |-> "ok", submit |-> "none",
             accepted |-> FALSE, got_none |-> FALSE, idx |-> 0, data |-> <<>>]
       ELSE IF p.some
       THEN [xpad |-> [p.xpad EXCEPT !.odata = p.data],
             ret |-> IF accept THEN "ok" ELSE "submit_err",
             submit |-> "init", accepted |-> accept,
             got_none |-> FALSE, idx |-> p.idx, data |-> p.data]
       ELSE [xpad |-> p.xpad, ret |-> "ok", submit |-> "none",
             accepted |-> FALSE, got_none |-> TRUE, idx |-> 0, data |-> <<>>]

\* Mutant: a rejected submission leaves the cursor and the serial where they
\* were, so that the template is produced again.
xpad_try_sending_next_out_packet_retry(x, accept) ==
    LET p == xpad_prepare_next_init_packet(x)
    IN IF p.some
       THEN [xpad |-> IF accept THEN [p.xpad EXCEPT !.odata = p.data]
                      ELSE [x EXCEPT !.odata = p.data],
             ret |-> IF accept THEN "ok" ELSE "submit_err",
             submit |-> "init", accepted |-> accept,
             got_none |-> FALSE, idx |-> p.idx, data |-> p.data]
       ELSE [xpad |-> p.xpad, ret |-> "ok", submit |-> "none",
             accepted |-> FALSE, got_none |-> TRUE, idx |-> 0, data |-> <<>>]

\* xpad_try_sending_next_out_packet: the next init packet, if the sequencer
\* returns one, is copied to the output buffer and submitted.
xpad_try_sending_next_out_packet(x, accept) ==
    LET p == xpad_prepare_next_init_packet(x)
    IN IF p.some
       THEN [xpad |-> [p.xpad EXCEPT !.odata = p.data],
             ret |-> IF accept THEN "ok" ELSE "submit_err",
             submit |-> "init", accepted |-> accept,
             got_none |-> FALSE, idx |-> p.idx, data |-> p.data]
       ELSE [xpad |-> p.xpad, ret |-> "ok", submit |-> "none",
             accepted |-> FALSE, got_none |-> TRUE, idx |-> 0, data |-> <<>>]

-----------------------------------------------------------------------------
(* Effect encoder and submission *)

\* The candidate replaces whatever effect packet was stored and not yet sent
\* (latest-pending-overwrite, not a queue); then the scheduler is invoked.
send_output_packet(x, packet, accept) ==
    [pending |-> packet, sched |-> xpad_try_sending_next_out_packet(x, accept)]

\* Mutant: the magnitudes are scaled to the whole byte range.
RumblePacketFullScale(x, strong, weak) ==
    << GIP_CMD_RUMBLE, 0, x.odata_serial % 256, GIP_PL_LEN(9), 0,
       GIP_MOTOR_ALL, 0, 0, (strong \div 256) % 256, (weak \div 256) % 256,
       255, 0, 255 >>

\* Mutant: the magnitudes are narrowed to a byte without being scaled.
RumblePacketLowByte(x, strong, weak) ==
    << GIP_CMD_RUMBLE, 0, x.odata_serial % 256, GIP_PL_LEN(9), 0,
       GIP_MOTOR_ALL, 0, 0, strong % 256, weak % 256,
       255, 0, 255 >>

\* The 13-byte rumble packet of the Xbox One variant.
RumblePacket(x, strong, weak) ==
    << GIP_CMD_RUMBLE, 0, x.odata_serial % 256, GIP_PL_LEN(9), 0,
       GIP_MOTOR_ALL, 0, 0, (strong \div 512) % 256, (weak \div 512) % 256,
       255, 0, 255 >>

\* create_led_packet(pattern): the LED command.
create_led_packet(pattern) == <<1, 3, pattern>>

-----------------------------------------------------------------------------
(* Bytes and events of the inbound side *)

\* data[i] of the source: the byte at 0-based offset i.
B(data, i) == data[i + 1]

\* b & mask != 0
Masked(b, mask) == IF mask = 3 THEN b % 4 # 0 ELSE (b \div mask) % 2 = 1

\* (cond) as i32
AsInt(cond) == IF cond THEN 1 ELSE 0

\* i16::from_le_bytes([lo, hi])
I16FromLeBytes(lo, hi) ==
    LET u == lo + 256 * hi IN IF u >= 32768 THEN u - 65536 ELSE u

\* Mutant: the stick value is negated (wrapping) and not complemented.
Neg16(y) == IF y = -32768 THEN -32768 ELSE 0 - y

\* !y on an i16: every one of the 16 bits flipped.
Not16(y) ==
    LET u == IF y < 0 THEN y + 65536 ELSE y
        f == 65535 - u
    IN IF f >= 32768 THEN f - 65536 ELSE f

Key(code, pressed) == [kind |-> "key", code |-> code, value |-> AsInt(pressed)]
Abs(code, value) == [kind |-> "abs", code |-> code, value |-> value]
Sync == [kind |-> "sync", code |-> "SYN_REPORT", value |-> 0]

\* The outcome of a decoder: how it ended ("ok", "EINVAL" or "panic", an index
\* past the end of the buffer), the events it reported before, the new value
\* of pad_present, the calls of schedule_work, the sequence number of the
\* acknowledgement it asked for (-1 for none), and whether it handed the
\* payload to the Xbox 360 decoder.
Decoded(ret, events, x) ==
    [ret |-> ret, events |-> events, present |-> x.pad_present, work |-> 0,
     ack |-> -1, delegated |-> FALSE]

-----------------------------------------------------------------------------
(* Packet decoder: Xbox and Xbox 360 *)

DpadEvents(buttons, to_buttons) ==
    IF to_buttons
    THEN << Key("BTN_TRIGGER_HAPPY1", Masked(buttons, 4)),
            Key("BTN_TRIGGER_HAPPY2", Masked(buttons, 8)),
            Key("BTN_TRIGGER_HAPPY3", Masked(buttons, 1)),
            Key("BTN_TRIGGER_HAPPY4", Masked(buttons, 2)) >>
    ELSE << Abs("ABS_HAT0X", AsInt(Masked(buttons, 4)) - AsInt(Masked(buttons, 8))),
            Abs("ABS_HAT0Y", AsInt(Masked(buttons, 1)) - AsInt(Masked(buttons, 2))) >>

StickEvents(data, null) ==
    IF null THEN <<>>
    ELSE << Abs("ABS_X", I16FromLeBytes(B(data, 12), B(data, 13))),
            Abs("ABS_Y", Not16(I16FromLeBytes(B(data, 14), B(data, 15)))) >>

\* Mutant: a trigger counts as pressed from half of its travel on.
TriggerEventsHalf(data, to_buttons) ==
    IF to_buttons
    THEN << Key("BTN_TL2", B(data, 10) > 127), Key("BTN_TR2", B(data, 11) > 127) >>
    ELSE << Abs("ABS_Z", B(data, 10)), Abs("ABS_RZ", B(data, 11)) >>

TriggerEvents(data, to_buttons) ==
    IF to_buttons
    THEN << Key("BTN_TL2", B(data, 10) > 0), Key("BTN_TR2", B(data, 11) > 0) >>
    ELSE << Abs("ABS_Z", B(data, 10)), Abs("ABS_RZ", B(data, 11)) >>

\* process_packet: the module parameters p select the branches.
process_packet(p, x, data) ==
    IF Len(data) < XPAD_PKT_LEN
    THEN Decoded("EINVAL", <<>>, x)
    ELSE Decoded("ok",
                 StickEvents(data, p.sticks_to_null)
                 \o TriggerEvents(data, p.triggers_to_buttons)
                 \o DpadEvents(B(data, 2), p.dpad_to_buttons)
                 \o <<Sync>>, x)

-----------------------------------------------------------------------------
(* Packet decoder: Xbox 360 Wireless *)

\* Mutant: the presence flag is taken from every packet, whatever its status
\* byte is.
xpad360w_process_packet_any_status(p, x, data) ==
    IF Len(data) < 1 THEN Decoded("panic", <<>>, x)
    ELSE IF Len(data) < 2 THEN Decoded("panic", <<>>, x)
    ELSE LET present == Masked(B(data, 1), 128)
             x1 == [x EXCEPT !.pad_present = present]
         IN IF B(data, 1) = 1 /\ Len(data) >= 4
            THEN LET d == process_packet(p, x1, SubSeq(data, 5, Len(data)))
                 IN [Decoded("ok", d.events, x1) EXCEPT !.delegated = TRUE]
            ELSE Decoded("ok", <<>>, x1)

\* xpad360w_process_packet. The result of the delegated decode is dropped by
\* the caller; its events are reported.
xpad360w_process_packet(p, x, data) ==
    IF Len(data) < 1 THEN Decoded("panic", <<>>, x)
    ELSE IF Len(data) < 2 THEN Decoded("panic", <<>>, x)
    ELSE LET is_presence == Masked(B(data, 0), 8)
             present == IF is_presence THEN Masked(B(data, 1), 128)
                        ELSE x.pad_present
             x1 == [x EXCEPT !.pad_present = present]
         IN IF B(data, 1) = 1 /\ Len(data) >= 4
            THEN LET d == process_packet(p, x1, SubSeq(data, 5, Len(data)))
                 IN [Decoded("ok", d.events, x1) EXCEPT !.delegated = TRUE]
            ELSE Decoded("ok", <<>>, x1)

\* UsbXpad::process_packet, the handler of the older session struct.
\* has_dev: x360w_dev is Some; no code of the source writes the field.
UsbXpad_process_packet(p, x, data, has_dev) ==
    IF Len(data) < 2 THEN Decoded("panic", <<>>, x)
    ELSE IF Masked(B(data, 0), 8)
    THEN LET present == Masked(B(data, 1), 128)
         IN IF x.pad_present # present
            THEN [Decoded("ok", <<>>, [x EXCEPT !.pad_present = present])
                     EXCEPT !.work = 1]
            ELSE Decoded("ok", <<>>, x)
    ELSE IF B(data, 1) = 1 /\ has_dev
    THEN IF Len(data) < 5 THEN Decoded("panic", <<>>, x)
         ELSE LET d == process_packet(p, x, SubSeq(data, 5, Len(data)))
              IN [Decoded("ok", d.events, x) EXCEPT !.delegated = TRUE]
    ELSE Decoded("ok", <<>>, x)

-----------------------------------------------------------------------------
(* Packet decoder: Xbox One *)

\* The keys of the main-input command (data[4]).
OneKeyEvents(data) ==
    << Key("BTN_START", Masked(B(data, 4), 4)),
       Key("BTN_SELECT", Masked(B(data, 4), 8)),
       Key("BTN_A", Masked(B(data, 4), 16)),
       Key("BTN_B", Masked(B(data, 4), 32)),
       Key("BTN_X", Masked(B(data, 4), 64)),
       Key("BTN_Y", Masked(B(data, 4), 128)) >>

\* Mutant: the hat pair with the operands of the Xbox / Xbox 360 layout.
OneDpadEventsPadOrder(data, to_buttons) ==
    IF to_buttons
    THEN << Key("BTN_TRIGGER_HAPPY1", Masked(B(data, 5), 4)),
            Key("BTN_TRIGGER_HAPPY2", Masked(B(data, 5), 8)),
            Key("BTN_TRIGGER_HAPPY3", Masked(B(data, 5), 1)),
            Key("BTN_TRIGGER_HAPPY4", Masked(B(data, 5), 2)) >>
    ELSE << Abs("ABS_HAT0X",
                AsInt(Masked(B(data, 5), 4)) - AsInt(Masked(B(data, 5), 8))),
            Abs("ABS_HAT0Y",
                AsInt(Masked(B(data, 5), 1)) - AsInt(Masked(B(data, 5), 2))) >>

\* The d-pad of the main-input command (data[5]).
OneDpadEvents(data, to_buttons) ==
    IF to_buttons
    THEN << Key("BTN_TRIGGER_HAPPY1", Masked(B(data, 5), 4)),
            Key("BTN_TRIGGER_HAPPY2", Masked(B(data, 5), 8)),
            Key("BTN_TRIGGER_HAPPY3", Masked(B(data, 5), 1)),
            Key("BTN_TRIGGER_HAPPY4", Masked(B(data, 5), 2)) >>
    ELSE << Abs("ABS_HAT0X",
                AsInt(Masked(B(data, 5), 8)) - AsInt(Masked(B(data, 5), 4))),
            Abs("ABS_HAT0Y",
                AsInt(Masked(B(data, 5), 2)) - AsInt(Masked(B(data, 5), 1))) >>

\* The four stick reports of the main-input command, in the order of the
\* source; each reads two bytes.
OneStick(data, k) ==
    CASE k = 1 -> Abs("ABS_X", I16FromLeBytes(B(data, 10), B(data, 11)))
      [] k = 2 -> Abs("ABS_Y", Not16(I16FromLeBytes(B(data, 12), B(data, 13))))
      [] k = 3 -> Abs("ABS_RX", I16FromLeBytes(B(data, 14), B(data, 15)))
      [] k = 4 -> Abs("ABS_RY", Not16(I16FromLeBytes(B(data, 16), B(data, 17))))

\* The stick reports made before the buffer ends: report k needs 10 + 2k bytes.
OneSticksDone(data) ==
    IF Len(data) >= 18 THEN 4
    ELSE IF Len(data) >= 16 THEN 3
    ELSE IF Len(data) >= 14 THEN 2
    ELSE IF Len(data) >= 12 THEN 1
    ELSE 0

OneStickEvents(data) == [k \in 1..OneSticksDone(data) |-> OneStick(data, k)]

\* GIP_CMD_INPUT
xpadone_input(x, data) ==
    IF Len(data) < 5 THEN Decoded("panic", <<>>, x)
    ELSE IF Len(data) < 6 THEN Decoded("panic", OneKeyEvents(data), x)
    ELSE LET head == OneKeyEvents(data)
                     \o OneDpadEvents(data, "DPAD_TO_BUTTONS" \in x.mapping)
         IN IF "STICKS_TO_NULL" \in x.mapping
            THEN Decoded("ok", head \o <<Sync>>, x)
            ELSE IF Len(data) < 18
            THEN Decoded("panic", head \o OneStickEvents(data), x)
            ELSE Decoded("ok", head \o OneStickEvents(data) \o <<Sync>>, x)

\* Mutant: the acknowledgement is sent whenever the GIP_OPT_ACK bit is set.
xpadone_virtual_key_ack_bit(x, data) ==
    IF Len(data) < 2 THEN Decoded("panic", <<>>, x)
    ELSE LET wants_ack == Masked(B(data, 1), GIP_OPT_ACK)
         IN IF wants_ack /\ Len(data) < 3 THEN Decoded("panic", <<>>, x)
            ELSE LET ack == IF wants_ack THEN B(data, 2) ELSE -1
                 IN IF Len(data) < 5
                    THEN [Decoded("panic", <<>>, x) EXCEPT !.ack = ack]
                    ELSE [Decoded("ok", << Key("BTN_MODE", Masked(B(data, 4), 3)),
                                           Sync >>, x)
                             EXCEPT !.ack = ack]

\* GIP_CMD_VIRTUAL_KEY
xpadone_virtual_key(x, data) ==
    IF Len(data) < 2 THEN Decoded("panic", <<>>, x)
    ELSE LET wants_ack == B(data, 1) = GIP_OPT_ACK + GIP_OPT_INTERNAL
         IN IF wants_ack /\ Len(data) < 3 THEN Decoded("panic", <<>>, x)
            ELSE LET ack == IF wants_ack THEN B(data, 2) ELSE -1
                 IN IF Len(data) < 5
                    THEN [Decoded("panic", <<>>, x) EXCEPT !.ack = ack]
                    ELSE [Decoded("ok", << Key("BTN_MODE", Masked(B(data, 4), 3)),
                                           Sync >>, x)
                             EXCEPT !.ack = ack]

\* Mutant: the paddle byte is taken whatever the companion byte is.
xpadone_firmware_any_companion(x, data) ==
    IF x.packet_type # "Xbe2Fw511" THEN Decoded("ok", <<>>, x)
    ELSE IF Len(data) < 20 THEN Decoded("panic", <<>>, x)
    ELSE LET buttons == B(data, 18)
         IN Decoded("ok",
                    << Key("BTN_TRIGGER_HAPPY5", Masked(buttons, 1)),
                       Key("BTN_TRIGGER_HAPPY6", Masked(buttons, 2)),
                       Key("BTN_TRIGGER_HAPPY7", Masked(buttons, 4)),
                       Key("BTN_TRIGGER_HAPPY8", Masked(buttons, 8)),
                       Sync >>, x)

\* GIP_CMD_FIRMWARE
xpadone_firmware(x, data) ==
    IF x.packet_type # "Xbe2Fw511" THEN Decoded("ok", <<>>, x)
    ELSE IF Len(data) < 20 THEN Decoded("panic", <<>>, x)
    ELSE LET buttons == IF B(data, 19) # 0 THEN 0 ELSE B(data, 18)
         IN Decoded("ok",
                    << Key("BTN_TRIGGER_HAPPY5", Masked(buttons, 1)),
                       Key("BTN_TRIGGER_HAPPY6", Masked(buttons, 2)),
                       Key("BTN_TRIGGER_HAPPY7", Masked(buttons, 4)),
                       Key("BTN_TRIGGER_HAPPY8", Masked(buttons, 8)),
                       Sync >>, x)

\* Mutant: the nibble wraps around the table and is not clamped.
xpadone_ghl_wrap(x, data) ==
    IF Len(data) < 7 THEN Decoded("panic", <<>>, x)
    ELSE LET dpad_value == B(data, 6) % 16
             m == DPAD_MAPPING[(dpad_value % 9) + 1]
         IN Decoded("ok", << Abs("ABS_HAT0X", m[1]), Abs("ABS_HAT0Y", m[2]),
                             Sync >>, x)

\* Command 0x21: the guitar d-pad.
xpadone_ghl(x, data) ==
    IF Len(data) < 7 THEN Decoded("panic", <<>>, x)
    ELSE LET dpad_value == B(data, 6) % 16
             m == DPAD_MAPPING[(IF dpad_value < 8 THEN dpad_value ELSE 8) + 1]
         IN Decoded("ok", << Abs("ABS_HAT0X", m[1]), Abs("ABS_HAT0Y", m[2]),
                             Sync >>, x)

\* Mutant: a command of an unknown tag ends the frame with a sync.
xpadone_process_packet_sync_all(x, data) ==
    IF Len(data) < 1 THEN Decoded("panic", <<>>, x)
    ELSE IF B(data, 0) = GIP_CMD_VIRTUAL_KEY THEN xpadone_virtual_key(x, data)
    ELSE IF B(data, 0) = GIP_CMD_FIRMWARE THEN xpadone_firmware(x, data)
    ELSE IF B(data, 0) = GIP_CMD_INPUT THEN xpadone_input(x, data)
    ELSE IF B(data, 0) = 33 THEN xpadone_ghl(x, data)
    ELSE Decoded("ok", <<Sync>>, x)

\* xpadone_process_packet: the match on the command tag data[0].
xpadone_process_packet(x, data) ==
    IF Len(data) < 1 THEN Decoded("panic", <<>>, x)
    ELSE IF B(data, 0) = GIP_CMD_VIRTUAL_KEY THEN xpadone_virtual_key(x, data)
    ELSE IF B(data, 0) = GIP_CMD_FIRMWARE THEN xpadone_firmware(x, data)
    ELSE IF B(data, 0) = GIP_CMD_INPUT THEN xpadone_input(x, data)
    ELSE IF B(data, 0) = 33 THEN xpadone_ghl(x, data)
    ELSE Decoded("ok", <<>>, x)

\* The acknowledgement of a virtual-key report, echoing its sequence number.
AckPacket(seq_num) ==
    << GIP_CMD_ACK, GIP_OPT_INTERNAL, seq_num, GIP_PL_LEN(9), 0,
       GIP_CMD_VIRTUAL_KEY, GIP_OPT_INTERNAL, 0, 0, 0, 0, 0, 0 >>

\* The dispatch of xpad_irq_in on the controller variant.
DecodeFor(p, x, data) ==
    CASE x.xtype = "Xbox360" -> process_packet(p, x, data)
      [] x.xtype = "Xbox360W" -> xpad360w_process_packet(p, x, data)
      [] x.xtype = "XboxOne" -> xpadone_process_packet(x, data)
      [] OTHER -> process_packet(p, x, data)

-----------------------------------------------------------------------------
(* Bookkeeping of the observations *)

NoOut ==
    [op |-> "none", ret |-> "ok", submit |-> "none", accepted |-> FALSE,
     got_none |-> FALSE, init_serial |-> -1, prev_init |-> -1,
     fx_between |-> -1, strong |-> -1, weak |-> -1]

\* The tracked previous init serial after n more rumble stamps.
TrackPrev(n) == IF prev_init # -1 /\ fx_since + n <= MaxGap THEN prev_init ELSE -1
TrackFx(n) == IF prev_init # -1 /\ fx_since + n <= MaxGap THEN fx_since + n ELSE 0

\* The observations after an operation `op` that stamped n rumble packets
\* and then ran the scheduler with result r, with `before` transfers
\* outstanding when the scheduler ran; strong and weak are the magnitudes of
\* a rumble command, -1 for any other operation.
ObserveCmd(op, n, r, before, strong, weak) ==
    /\ out' = [op |-> op, ret |-> r.ret, submit |-> r.submit,
               strong |-> strong, weak |-> weak,
               accepted |-> r.accepted, got_none |-> r.got_none,
               init_serial |-> IF r.idx # 0 THEN r.data[3] ELSE -1,
               prev_init |-> IF r.idx # 0 THEN TrackPrev(n) ELSE -1,
               fx_between |-> IF r.idx # 0 /\ TrackPrev(n) # -1
                              THEN TrackFx(n) ELSE -1]
    /\ returned' = IF r.idx # 0 THEN Append(returned, r.idx) ELSE returned
    /\ prev_init' = IF r.idx # 0 THEN r.data[3] ELSE TrackPrev(n)
    /\ fx_since' = IF r.idx # 0 THEN 0 ELSE TrackFx(n)
    /\ none_seen' = IF r.got_none /\ none_seen < MaxNoneSeen
                    THEN none_seen + 1 ELSE none_seen
    /\ transmitted' = IF r.idx # 0 /\ r.accepted
                      THEN Append(transmitted, r.idx) ELSE transmitted
    /\ inflight' = IF r.accepted THEN before + 1 ELSE before

Observe(op, n, r, before) == ObserveCmd(op, n, r, before, -1, -1)

-----------------------------------------------------------------------------
(* The session after construction *)

NewSession(t, v, p, serial) ==
    [xtype |-> t, vendor_id |-> v, product_id |-> p,
     pad_present |-> FALSE, irq_out_active |-> FALSE,
     odata |-> <<>>, init_seq |-> 0, odata_serial |-> serial,
     mapping |-> {}, packet_type |-> "Xb", quirks |-> {}]

NoParams ==
    [dpad_to_buttons |-> FALSE, triggers_to_buttons |-> FALSE,
     sticks_to_null |-> FALSE]

\* The callers of the output side, a caller that is in no call, and the two
\* Mutexes of the session, both free.
Threads == 1..NumThreads
Idle == [at |-> "idle", op |-> "none"]
NoLock == [odata |-> 0, init_seq |-> 0]

NoIn ==
    [status |-> "none", via |-> "none", data |-> <<>>, ret |-> "ok",
     dec |-> "none",
     events |-> <<>>, work |-> 0, ack |-> -1, delegated |-> FALSE,
     resubmitted |-> FALSE, was_present |-> FALSE]

InitWith(types, vendors, products, serials) ==
    /\ \E t \in types, v \in vendors, p \in products, n \in serials :
          xpad = NewSession(t, v, p, n)
    /\ params = NoParams
    /\ urb_in = TRUE
    /\ inp = NoIn
    /\ pc = [t \in Threads |-> Idle]
    /\ lock = NoLock
    /\ pending = <<>>
    /\ inflight = 0
    /\ out = NoOut
    /\ returned = <<>>
    /\ prev_init = -1
    /\ fx_since = 0
    /\ none_seen = 0
    /\ transmitted = <<>>

Init == InitWith(XTypes, Vendors, Products, {0})

-----------------------------------------------------------------------------
(* Operations; Accepts is the set of answers the transport may give to a    *)
(* submission                                                               *)

\* A direct invocation of the scheduler.
TrySend(Accepts) ==
    \E accept \in Accepts :
        LET r == xpad_try_sending_next_out_packet(xpad, accept)
        IN /\ xpad' = r.xpad
           /\ UNCHANGED pending
           /\ UNCHANGED <<invars, lockvars>>
           /\ Observe("try_send", 0, r, inflight)

\* Mutant: the serial is taken before the variant is looked at.
xpad_play_effect_stamp_first(strong, weak, accept) ==
    IF xpad.xtype = "XboxOne"
    THEN LET packet == RumblePacket(xpad, strong, weak)
             x1 == [xpad EXCEPT !.odata_serial = (@ + 1) % 256]
             s == send_output_packet(x1, [kind |-> "rumble", data |-> packet],
                                     accept)
         IN /\ xpad' = s.sched.xpad
            /\ pending' = s.pending
            /\ UNCHANGED <<invars, lockvars>>
            /\ ObserveCmd("play_effect", 1, s.sched, inflight, strong, weak)
    ELSE /\ out' = [NoOut EXCEPT !.op = "play_effect", !.ret = "not_supported",
                                 !.strong = strong, !.weak = weak]
         /\ xpad' = [xpad EXCEPT !.odata_serial = (@ + 1) % 256]
         /\ UNCHANGED <<pending, inflight, returned, prev_init,
                        fx_since, none_seen, transmitted>>
         /\ UNCHANGED <<invars, lockvars>>

\* Mutant: the rumble packet takes the serial without advancing the counter.
xpad_play_effect_no_advance(strong, weak, accept) ==
    IF xpad.xtype = "XboxOne"
    THEN LET packet == RumblePacket(xpad, strong, weak)
             s == send_output_packet(xpad, [kind |-> "rumble", data |-> packet],
                                     accept)
         IN /\ xpad' = s.sched.xpad
            /\ pending' = s.pending
            /\ UNCHANGED <<invars, lockvars>>
            /\ ObserveCmd("play_effect", 1, s.sched, inflight, strong, weak)
    ELSE /\ out' = [NoOut EXCEPT !.op = "play_effect", !.ret = "not_supported",
                                 !.strong = strong, !.weak = weak]
         /\ UNCHANGED <<xpad, pending, inflight, returned, prev_init,
                        fx_since, none_seen, transmitted>>
         /\ UNCHANGED <<invars, lockvars>>

\* xpad_play_effect: a rumble command.
xpad_play_effect(strong, weak, accept) ==
    IF xpad.xtype = "XboxOne"
    THEN LET packet == RumblePacket(xpad, strong, weak)
             x1 == [xpad EXCEPT !.odata_serial = (@ + 1) % 256]
             s == send_output_packet(x1, [kind |-> "rumble", data |-> packet],
                                     accept)
         IN /\ xpad' = s.sched.xpad
            /\ pending' = s.pending
            /\ UNCHANGED <<invars, lockvars>>
            /\ ObserveCmd("play_effect", 1, s.sched, inflight, strong, weak)
    ELSE /\ out' = [NoOut EXCEPT !.op = "play_effect", !.ret = "not_supported",
                                 !.strong = strong, !.weak = weak]
         /\ UNCHANGED <<xpad, pending, inflight, returned, prev_init,
                        fx_since, none_seen, transmitted>>
         /\ UNCHANGED <<invars, lockvars>>

PlayEffect(Mags, Accepts, cap) ==
    /\ xpad.odata_serial < cap
    /\ \E strong \in Mags, weak \in Mags, accept \in Accepts :
          xpad_play_effect(strong, weak, accept)

\* XpadLed::set_state: an LED command.
LedSetState(Accepts) ==
    \E pattern \in LedPatterns, accept \in Accepts :
        LET s == send_output_packet(xpad, [kind |-> "led",
                                           data |-> create_led_packet(pattern)],
                                    accept)
        IN /\ xpad' = s.sched.xpad
           /\ pending' = s.pending
           /\ UNCHANGED <<invars, lockvars>>
           /\ Observe("led", 0, s.sched, inflight)

\* The transport reports the completion of an outstanding transfer: the
\* outstanding-transfer flag is cleared and the scheduler is invoked again.
IrqOutComplete(Accepts) ==
    /\ inflight > 0
    /\ \E accept \in Accepts :
        LET x1 == [xpad EXCEPT !.irq_out_active = FALSE]
            r == xpad_try_sending_next_out_packet(x1, accept)
        IN /\ xpad' = r.xpad
           /\ UNCHANGED pending
           /\ UNCHANGED <<invars, lockvars>>
           /\ Observe("irq_out", 0, r, inflight - 1)

\* One session under every interleaving of scheduler invocations, effect
\* commands and completions, the transport accepting or rejecting.
Next ==
    \/ TrySend(BOOLEAN)
    \/ PlayEffect(Magnitudes, BOOLEAN, MaxStamps)
    \/ LedSetState(BOOLEAN)
    \/ IrqOutComplete(BOOLEAN)

Spec == Init /\ [][Next]_vars

\* An Xbox One session whose transport accepts every submission, with rumble
\* commands issued without a cap. No code resets the output serial, so the
\* sequencer is run from a fresh counter and from one about to wrap.
StartSerials == {0, 254}

InitSerial == InitWith({"XboxOne"}, {1}, Products, StartSerials)

NextSerial ==
    \/ TrySend({TRUE})
    \/ PlayEffect({1024}, {TRUE}, 256)
    \/ IrqOutComplete({TRUE})

SpecSerial == InitSerial /\ [][NextSerial]_vars

\* An Xbox One session given rumble commands of every magnitude pair while
\* its output serial is next to the wrap, between invocations of the
\* scheduler.
RumbleWindow == {254, 255, 0, 1}

NextRumble ==
    \/ TrySend({TRUE})
    \/ (xpad.odata_serial \in RumbleWindow /\ PlayEffect(Magnitudes, {TRUE}, 256))

SpecRumble == InitSerial /\ [][NextRumble]_vars

-----------------------------------------------------------------------------
(* Inbound completions *)

\* A buffer of len bytes, zero except at the 0-based offsets of a.
Pkt(len, a) == [i \in 1..len |-> IF (i - 1) \in DOMAIN a THEN a[i - 1] ELSE 0]

\* Stick values as byte pairs <<lo, hi>>: 0, -32768, 32767, -1, 1, 0x1234.
StickBytes == {<<0, 0>>, <<0, 128>>, <<255, 127>>, <<255, 255>>, <<1, 0>>,
               <<52, 18>>}

\* Buffers given to an Xbox or Xbox 360 session.
PadPackets ==
    {Pkt(n, 2 :> 5) : n \in {0, 15, 16, 63}}
    \cup {Pkt(64, 12 :> x[1] @@ 13 :> x[2] @@ 14 :> y[1] @@ 15 :> y[2]) :
             x \in {<<0, 0>>, <<52, 18>>, <<0, 128>>}, y \in StickBytes}
    \cup {Pkt(64, 2 :> b) : b \in 0..15}
    \cup {Pkt(64, 10 :> l @@ 11 :> r) : l \in {0, 1, 255}, r \in {0, 1, 255}}

\* Buffers given to an Xbox 360 Wireless session: the status byte, the second
\* byte, and from offset 4 on a pad report (64 bytes, short, or cut by the 64
\* bytes of the buffer).
WirelessPackets ==
    {Pkt(n, 0 :> s @@ 1 :> b) :
        n \in {0, 1, 2, 4}, s \in {0, 8}, b \in {0, 1, 128}}
    \cup {Pkt(n, 0 :> s @@ 1 :> b @@ 6 :> 5 @@ 18 :> 1 @@ 19 :> 128) :
             n \in {64, 68}, s \in {0, 8}, b \in {1, 128, 129}}

\* Buffers given to an Xbox One session, by command tag.
OnePackets ==
    {Pkt(n, 0 :> GIP_CMD_VIRTUAL_KEY @@ 1 :> o @@ 2 :> 7 @@ 4 :> k) :
        n \in {1, 3, 5}, o \in {0, 48}, k \in {0, 1}}
    \cup {Pkt(5, 0 :> GIP_CMD_VIRTUAL_KEY @@ 1 :> o @@ 2 :> 7 @@ 4 :> 2) :
             o \in {16, 32}}
    \cup {Pkt(n, 0 :> GIP_CMD_FIRMWARE @@ 18 :> b @@ 19 :> c) :
             n \in {19, 20}, b \in {5, 15}, c \in {0, 1}}
    \cup {Pkt(n, 0 :> GIP_CMD_INPUT @@ 4 :> 20 @@ 5 :> 5 @@ 13 :> 128) :
             n \in {4, 6, 11, 12, 17, 64}}
    \cup {Pkt(18, 0 :> GIP_CMD_INPUT @@ 4 :> 0 @@ 5 :> b) : b \in 0..15}
    \cup {Pkt(18, 0 :> GIP_CMD_INPUT @@ 4 :> 4 @@ 5 :> b) : b \in {0, 5}}
    \cup {Pkt(18, 0 :> GIP_CMD_INPUT @@ 10 :> 52 @@ 11 :> 18
                    @@ 12 :> y[1] @@ 13 :> y[2] @@ 16 :> y[2] @@ 17 :> y[1]) :
             y \in StickBytes}
    \cup {Pkt(7, 0 :> 33 @@ 6 :> b) : b \in (0..15) \cup {24, 241}}
    \cup {Pkt(6, 0 :> 33)}
    \cup {Pkt(n, 0 :> 3 @@ 1 :> 48 @@ 4 :> 1 @@ 6 :> 2) : n \in {0, 1, 20}}

PacketsFor(x) ==
    CASE x.xtype = "Xbox360W" -> WirelessPackets
      [] x.xtype = "XboxOne" -> OnePackets
      [] OTHER -> PadPackets

UrbStatuses == {"Success", "Disconnected", "Cancelled", "Error"}

\* Mutant: a decode puts the session back to the basic revision.
AfterDecodeBasic(x, d) ==
    [x EXCEPT !.pad_present = d.present, !.packet_type = "Xb"]

\* The session after a decode: pad_present is the one field a decoder writes.
AfterDecode(x, d) == [x EXCEPT !.pad_present = d.present]

\* Mutant: the receive transfer is resubmitted whatever the status is.
xpad_irq_in_resubmit_always(status, data, again, accept) ==
    IF status # "Success"
    THEN /\ inp' = [NoIn EXCEPT !.status = status, !.via = "irq",
                                !.ret = IF status = "Error" THEN "err" ELSE "ok",
                                !.resubmitted = TRUE,
                                !.was_present = xpad.pad_present]
         /\ urb_in' = again
         /\ UNCHANGED <<xpad, params, lockvars>>
         /\ UNCHANGED outvars
    ELSE LET d == DecodeFor(params, xpad, data)
             x1 == AfterDecode(xpad, d)
             done == d.ret # "panic"
         IN /\ inp' = [status |-> status, via |-> "irq", data |-> data,
                       ret |-> IF ~done THEN "panic"
                               ELSE IF again THEN "ok" ELSE "err",
                       dec |-> d.ret, events |-> d.events, work |-> d.work,
                       ack |-> d.ack, delegated |-> d.delegated,
                       resubmitted |-> done,
                       was_present |-> xpad.pad_present]
            /\ urb_in' = (done /\ again)
            /\ UNCHANGED <<params, lockvars>>
            /\ IF d.ack # -1
               THEN LET s == send_output_packet(
                                 x1, [kind |-> "ack", data |-> AckPacket(d.ack)],
                                 accept)
                    IN /\ xpad' = s.sched.xpad
                       /\ pending' = s.pending
                       /\ Observe("ack", 0, s.sched, inflight)
               ELSE /\ xpad' = x1
                    /\ UNCHANGED outvars

\* xpad_irq_in with a completion of the given status and buffer; `again` is
\* the transport's answer to the resubmission, `accept` its answer to the
\* output submission an acknowledgement leads to.
xpad_irq_in(status, data, again, accept) ==
    IF status # "Success"
    THEN /\ inp' = [NoIn EXCEPT !.status = status, !.via = "irq",
                                !.ret = IF status = "Error" THEN "err" ELSE "ok",
                                !.was_present = xpad.pad_present]
         /\ urb_in' = FALSE
         /\ UNCHANGED <<xpad, params, lockvars>>
         /\ UNCHANGED outvars
    ELSE LET d == DecodeFor(params, xpad, data)
             x1 == AfterDecode(xpad, d)
             done == d.ret # "panic"
         IN /\ inp' = [status |-> status, via |-> "irq", data |-> data,
                       ret |-> IF ~done THEN "panic"
                               ELSE IF again THEN "ok" ELSE "err",
                       dec |-> d.ret, events |-> d.events, work |-> d.work,
                       ack |-> d.ack, delegated |-> d.delegated,
                       resubmitted |-> done,
                       was_present |-> xpad.pad_present]
            /\ urb_in' = (done /\ again)
            /\ UNCHANGED <<params, lockvars>>
            /\ IF d.ack # -1
               THEN LET s == send_output_packet(
                                 x1, [kind |-> "ack", data |-> AckPacket(d.ack)],
                                 accept)
                    IN /\ xpad' = s.sched.xpad
                       /\ pending' = s.pending
                       /\ Observe("ack", 0, s.sched, inflight)
               ELSE /\ xpad' = x1
                    /\ UNCHANGED outvars

\* A completion of the receive transfer with a buffer of Packets.
IrqInOf(Packets, Accepts) ==
    /\ urb_in
    /\ \E status \in UrbStatuses, again \in BOOLEAN, accept \in Accepts :
          \E data \in (IF status = "Success" THEN Packets ELSE {<<>>}) :
              xpad_irq_in(status, data, again, accept)

IrqIn(Accepts) == IrqInOf(PacketsFor(xpad), Accepts)

\* UsbXpad::process_packet called with an inbound buffer of a wireless
\* session. It touches neither the receive transfer nor the output side.
ProcessPacketMethod ==
    /\ urb_in
    /\ xpad.xtype = "Xbox360W"
    /\ \E data \in WirelessPackets, has_dev \in BOOLEAN :
          LET d == UsbXpad_process_packet(params, xpad, data, has_dev)
          IN /\ inp' = [status |-> "Success", via |-> "method", data |-> data,
                        ret |-> IF d.ret = "panic" THEN "panic" ELSE "ok",
                        dec |-> d.ret, events |-> d.events, work |-> d.work,
                        ack |-> d.ack, delegated |-> d.delegated,
                        resubmitted |-> FALSE,
                        was_present |-> xpad.pad_present]
             /\ xpad' = AfterDecode(xpad, d)
             /\ urb_in' = (d.ret # "panic")
             /\ UNCHANGED <<params, lockvars>>
             /\ UNCHANGED outvars

\* A session of any variant with its mapping flags, the module parameters and
\* the negotiated packet type, receiving inbound completions. The module
\* parameters are read by the Xbox and Xbox 360 decoder only, mapping and
\* packet_type by the Xbox One decoder only, packet_type by its firmware
\* branch alone, the quirks by no decoder. A session of the Xbox or Xbox 360
\* variant carries the mapping flags of its device entry, whatever the module
\* parameters are.
MapFlags == {"DPAD_TO_BUTTONS", "TRIGGERS_TO_BUTTONS", "STICKS_TO_NULL"}

QuirkFlags == {"GHL_XBOXONE"}

InitIn ==
    /\ \E t \in XTypes, m \in SUBSET MapFlags, pt \in PacketTypes,
          q \in SUBSET QuirkFlags :
          /\ (t # "XboxOne" => (pt = "Xb" /\ q = {}))
          /\ (t = "XboxOne" => "TRIGGERS_TO_BUTTONS" \notin m)
          /\ (t = "Xbox360W" => m = {})
          /\ (m = {} \/ pt = "Xb")
          /\ (q = {} \/ (m = {} /\ pt = "Xb"))
          /\ xpad = [NewSession(t, 1, 1, 0) EXCEPT !.mapping = m,
                                                   !.packet_type = pt,
                                                   !.quirks = q]
    /\ \E d \in BOOLEAN, t \in BOOLEAN, s \in BOOLEAN :
          /\ (xpad.xtype = "XboxOne" => (~d /\ ~t /\ ~s))
          /\ (xpad.xtype = "Xbox360W" => (d = t /\ t = s))
          /\ (xpad.mapping # {} => (~d /\ ~t /\ ~s))
          /\ params = [dpad_to_buttons |-> d, triggers_to_buttons |-> t,
                       sticks_to_null |-> s]
    /\ urb_in = TRUE
    /\ inp = NoIn
    /\ pc = [t \in Threads |-> Idle]
    /\ lock = NoLock
    /\ pending = <<>>
    /\ inflight = 0
    /\ out = NoOut
    /\ returned = <<>>
    /\ prev_init = -1
    /\ fx_since = 0
    /\ none_seen = 0
    /\ transmitted = <<>>

NextIn ==
    \/ IrqIn({TRUE})
    \/ ProcessPacketMethod

SpecIn == InitIn /\ [][NextIn]_vars

\* The sessions of the Xbox and Xbox 360 variants alone.
InitPad == InitIn /\ xpad.xtype \in {"Xbox", "Xbox360"}

NextPad == IrqIn({TRUE})

SpecPad == InitPad /\ [][NextPad]_vars

\* The first rumble command of an Xbox One session, its strong magnitude any
\* u16 value and its weak magnitude the next value up or the value mirrored
\* in the range.
InitMotor == InitWith({"XboxOne"}, {1}, {1}, {0})

NextMotor ==
    /\ xpad.odata_serial = 0
    /\ \E strong \in 0..U16_MAX :
          \E weak \in {IF strong < U16_MAX THEN strong + 1 ELSE strong,
                       U16_MAX - strong} :
              xpad_play_effect(strong, weak, TRUE)

SpecMotor == InitMotor /\ [][NextMotor]_vars

\* The callers of the output side of an Xbox One session, step by step. A
\* caller enters the scheduler itself or xpad_play_effect, which stamps and
\* stores its packet first and reaches the scheduler through
\* send_output_packet, as XpadLed::set_state does. The inbound handler and
\* the decoders take no Mutex.
OutputOps == {"try_send", "play_effect"}

\* Mutant: the candidate is stored under the Mutex of the output buffer,
\* which is still held when the scheduler is called.
EnterOutputHoldingOdata(t) ==
    /\ pc[t].at = "idle"
    /\ \E op \in OutputOps :
          /\ pc' = [pc EXCEPT ![t] = [at |-> "lock_odata", op |-> op]]
          /\ CASE op = "try_send" ->
                     UNCHANGED <<xpad, pending, prev_init, fx_since, lock>>
               [] op = "play_effect" ->
                     /\ xpad.odata_serial < MaxStamps
                     /\ lock.odata = 0
                     /\ lock' = [lock EXCEPT !.odata = t]
                     /\ pending' = [kind |-> "rumble",
                                    data |-> RumblePacket(xpad, 1024, 0)]
                     /\ xpad' = [xpad EXCEPT !.odata_serial = (@ + 1) % 256]
                     /\ prev_init' = TrackPrev(1)
                     /\ fx_since' = TrackFx(1)
    /\ UNCHANGED <<inflight, out, returned, none_seen, transmitted>>
    /\ UNCHANGED invars

\* The caller enters an operation and runs it up to its call of the
\* scheduler.
EnterOutput(t) ==
    /\ pc[t].at = "idle"
    /\ \E op \in OutputOps :
          /\ pc' = [pc EXCEPT ![t] = [at |-> "lock_odata", op |-> op]]
          /\ CASE op = "try_send" ->
                     UNCHANGED <<xpad, pending, prev_init, fx_since>>
               [] op = "play_effect" ->
                     /\ xpad.odata_serial < MaxStamps
                     /\ pending' = [kind |-> "rumble",
                                    data |-> RumblePacket(xpad, 1024, 0)]
                     /\ xpad' = [xpad EXCEPT !.odata_serial = (@ + 1) % 256]
                     /\ prev_init' = TrackPrev(1)
                     /\ fx_since' = TrackFx(1)
          /\ UNCHANGED lock
    /\ UNCHANGED <<inflight, out, returned, none_seen, transmitted>>
    /\ UNCHANGED invars

\* xpad.odata.lock(): the caller waits until the Mutex is free.
LockOdata(t) ==
    /\ pc[t].at = "lock_odata"
    /\ lock.odata = 0
    /\ lock' = [lock EXCEPT !.odata = t]
    /\ pc' = [pc EXCEPT ![t].at = "lock_init_seq"]
    /\ UNCHANGED <<xpad, invars>>
    /\ UNCHANGED outvars

\* xpad.init_seq.lock(), in xpad_prepare_next_init_packet.
LockInitSeq(t) ==
    /\ pc[t].at = "lock_init_seq"
    /\ lock.init_seq = 0
    /\ lock' = [lock EXCEPT !.init_seq = t]
    /\ pc' = [pc EXCEPT ![t].at = "scan"]
    /\ UNCHANGED <<xpad, invars>>
    /\ UNCHANGED outvars

\* The sequencer scans and returns, which drops the guard of init_seq; the
\* scheduler copies the packet, if there is one, and submits it.
ScanAndSubmit(t) ==
    /\ pc[t].at = "scan"
    /\ LET r == xpad_try_sending_next_out_packet(xpad, TRUE)
       IN /\ xpad' = r.xpad
          /\ UNCHANGED pending
          /\ IF pc[t].op = "play_effect"
             THEN ObserveCmd(pc[t].op, 0, r, inflight, 1024, 0)
             ELSE Observe(pc[t].op, 0, r, inflight)
    /\ lock' = [lock EXCEPT !.init_seq = 0]
    /\ pc' = [pc EXCEPT ![t].at = "unlock_odata"]
    /\ UNCHANGED invars

\* The scheduler returns, which drops the guard of odata.
UnlockOdata(t) ==
    /\ pc[t].at = "unlock_odata"
    /\ lock' = [lock EXCEPT !.odata = 0]
    /\ pc' = [pc EXCEPT ![t] = Idle]
    /\ UNCHANGED <<xpad, invars>>
    /\ UNCHANGED outvars

InitLock == InitWith({"XboxOne"}, {1}, {1}, {0})

NextLock ==
    \E t \in Threads :
        \/ EnterOutput(t)
        \/ LockOdata(t)
        \/ LockInitSeq(t)
        \/ ScanAndSubmit(t)
        \/ UnlockOdata(t)

SpecLock == InitLock /\ [][NextLock]_vars

\* SpecLock with every caller that is inside an operation going on, and
\* taking a Mutex that is free again and again.
FairSpecLock ==
    /\ SpecLock
    /\ \A t \in Threads :
          /\ WF_vars(LockInitSeq(t) \/ ScanAndSubmit(t) \/ UnlockOdata(t))
          /\ SF_vars(LockOdata(t))

\* An Xbox One session of any revision under inbound completions, scheduler
\* invocations, rumble commands and output completions together.
RevPackets ==
    {Pkt(20, 0 :> GIP_CMD_FIRMWARE @@ 18 :> 5),
     Pkt(5, 0 :> GIP_CMD_VIRTUAL_KEY @@ 1 :> 48 @@ 2 :> 7 @@ 4 :> 1),
     Pkt(18, 0 :> GIP_CMD_INPUT @@ 4 :> 16),
     Pkt(7, 0 :> 33 @@ 6 :> 2),
     Pkt(20, 0 :> 3)}

InitRev ==
    InitIn /\ xpad.xtype = "XboxOne" /\ xpad.mapping = {} /\ xpad.quirks = {}

NextRev ==
    \/ IrqInOf(RevPackets, {TRUE})
    \/ TrySend({TRUE})
    \/ PlayEffect({1024}, {TRUE}, MaxStamps)
    \/ IrqOutComplete({TRUE})

SpecRev == InitRev /\ [][NextRev]_vars

\* Spec with the transport completing every transfer it accepted.
FairSpec == Spec /\ WF_vars(IrqOutComplete(BOOLEAN))

-----------------------------------------------------------------------------
(* Properties of the output side *)

NumInit == Len(XBOXONE_INIT_PACKETS)

Exhausted == xpad.init_seq = NumInit

\* The indices 1..n of the template list, in order.
Indices(n) == [i \in 1..n |-> i]

\* The claim's filter: vendor 0 or the device's, product 0 or the device's.
ClaimApplies(i) ==
    /\ XBOXONE_INIT_PACKETS[i].vendor \in {0, xpad.vendor_id}
    /\ XBOXONE_INIT_PACKETS[i].product \in {0, xpad.product_id}

\* The applicable templates among the first n, in list order.
ApplicableUpTo(n) == SelectSeq(Indices(n), ClaimApplies)

\* C1: at most one output transfer is outstanding at any time.
C1_OneOutstanding == inflight <= 1

\* C2: a packet handed to the transport is an effect packet only if the
\* initialization sequencer is exhausted and every applicable template has
\* been returned before.
C2_InitBeforeEffects ==
    out.submit \in {"rumble", "led"} =>
        (Exhausted /\ returned = ApplicableUpTo(NumInit))

\* An effect command arrived while the sequencer was not exhausted, and the
\* scheduler handed the next init packet to the transport.
C2_Witness ==
    /\ out.op \in {"play_effect", "led"}
    /\ pending # <<>>
    /\ out.submit = "init"
    /\ ~Exhausted

\* C3: at a transmit opportunity (the scheduler runs with the sequencer
\* exhausted and no transfer outstanding) the effect submitted last is
\* transmitted, so none stays stored.
C3_LatestEffectTransmitted ==
    (out.got_none /\ inflight = 0) => pending = <<>>

C5_SerialPlusOne ==
    (out.init_serial # -1 /\ out.prev_init # -1) =>
        out.init_serial = (out.prev_init + 1) % 256

\* C5 amended: a returned init packet carries the serial of the previously
\* returned one plus 1 plus the number of rumble packets stamped in between
\* (mod 256).
C5_SerialPlusOnePlusRumbles ==
    (out.init_serial # -1 /\ out.prev_init # -1) =>
        out.init_serial = (out.prev_init + 1 + out.fx_between) % 256

\* Two successive init packets across the wrap: serial 255, then 0.
C5_Witness ==
    /\ out.init_serial = 0
    /\ out.prev_init = 255
    /\ out.fx_between = 0

\* C6: once the sequencer has returned nothing, no call returns a packet and
\* the cursor stays at the end of the list.
C6_ExhaustedForever ==
    none_seen >= 1 => (Exhausted /\ out.init_serial = -1 /\ out.submit = "none")

\* The sequencer returned nothing twice, an effect command in between or
\* before.
C6_Witness ==
    /\ none_seen >= 2
    /\ out.got_none
    /\ pending # <<>>

\* C7: the packets returned so far are the applicable templates the cursor
\* has passed, in list order, each once; at exhaustion, all of them.
C7_ApplicableInOrder ==
    /\ returned = ApplicableUpTo(xpad.init_seq)
    /\ xpad.init_seq \in 0..NumInit

\* The sequencer is exhausted, having returned some templates and skipped
\* others.
C7_Witness ==
    /\ Exhausted
    /\ none_seen >= 1
    /\ Len(returned) >= 2
    /\ Len(returned) < NumInit

\* C8: the packet returned last equals its template at every byte except
\* index 2 (the third byte).
C8_OnlySerialByteDiffers ==
    returned # <<>> =>
        LET t == XBOXONE_INIT_PACKETS[returned[Len(returned)]].data
        IN /\ Len(xpad.odata) = Len(t)
           /\ \A i \in 1..Len(t) : i # 3 => xpad.odata[i] = t[i]

\* A returned packet whose serial byte differs from the template's.
C8_Witness ==
    /\ returned # <<>>
    /\ xpad.odata[3] # XBOXONE_INIT_PACKETS[returned[Len(returned)]].data[3]
    /\ xpad.odata[3] = out.init_serial

-----------------------------------------------------------------------------
(* Inbound buffers: length and stick axes *)

\* The last completion carried a buffer to the decoder.
Decoding == inp.status = "Success"

\* The number of bytes the decoder of the session reads of the buffer: the
\* highest offset it indexes, plus one.
RequiredLen(x, p, data) ==
    CASE x.xtype = "Xbox360W" ->
             IF Len(data) >= 4 /\ B(data, 1) = 1 THEN 4 + XPAD_PKT_LEN ELSE 2
      [] x.xtype = "XboxOne" ->
             IF Len(data) < 1 THEN 1
             ELSE IF B(data, 0) = GIP_CMD_VIRTUAL_KEY THEN 5
             ELSE IF B(data, 0) = GIP_CMD_FIRMWARE
                  THEN (IF x.packet_type = "Xbe2Fw511" THEN 20 ELSE 1)
             ELSE IF B(data, 0) = GIP_CMD_INPUT
                  THEN (IF "STICKS_TO_NULL" \in x.mapping THEN 6 ELSE 18)
             ELSE IF B(data, 0) = 33 THEN 7
             ELSE 1
      [] OTHER -> XPAD_PKT_LEN

ShortBuffer == Decoding /\ Len(inp.data) < RequiredLen(xpad, params, inp.data)

\* C9: a buffer shorter than what the decoder of the variant reads is
\* rejected with an explicit error before a byte is parsed: no event, no
\* acknowledgement, no change of pad_present, and the receive transfer is
\* submitted again so that the next packet is decoded.
C9_ShortBufferRejected ==
    ShortBuffer =>
        /\ inp.dec = "EINVAL"
        /\ inp.events = <<>>
        /\ inp.ack = -1
        /\ xpad.pad_present = inp.was_present
        /\ inp.resubmitted

\* The little-endian signed 16-bit value at 0-based offset i of the buffer.
Signed16At(data, i) ==
    LET u == B(data, i) + 256 * B(data, i + 1)
    IN u - 65536 * (u \div 32768)

\* The values the last decode reported for an axis.
Reported(code) ==
    {inp.events[i].value :
        i \in {j \in DOMAIN inp.events :
                   inp.events[j].kind = "abs" /\ inp.events[j].code = code}}

\* A full Xbox or Xbox 360 packet decoded with sticks_to_null unset.
PadSticksDecoded ==
    /\ Decoding
    /\ xpad.xtype \in {"Xbox", "Xbox360"}
    /\ Len(inp.data) >= XPAD_PKT_LEN
    /\ ~params.sticks_to_null

\* A full Xbox One main-input command decoded with STICKS_TO_NULL unset.
OneSticksDecoded ==
    /\ Decoding
    /\ xpad.xtype = "XboxOne"
    /\ Len(inp.data) >= 18
    /\ B(inp.data, 0) = GIP_CMD_INPUT
    /\ "STICKS_TO_NULL" \notin xpad.mapping

\* C10: with STICKS_TO_NULL unset the left-Y axis of an Xbox / Xbox 360
\* packet is reported as the complement (-y - 1) of the signed 16-bit value
\* at its offset and left-X verbatim; the Y axes of the Xbox One main-input
\* command are complemented as well, its X axes verbatim.
C10_YAxisComplemented ==
    /\ PadSticksDecoded =>
          /\ Reported("ABS_X") = {Signed16At(inp.data, 12)}
          /\ Reported("ABS_Y") = {0 - Signed16At(inp.data, 14) - 1}
    /\ OneSticksDecoded =>
          /\ Reported("ABS_X") = {Signed16At(inp.data, 10)}
          /\ Reported("ABS_Y") = {0 - Signed16At(inp.data, 12) - 1}
          /\ Reported("ABS_RX") = {Signed16At(inp.data, 14)}
          /\ Reported("ABS_RY") = {0 - Signed16At(inp.data, 16) - 1}

\* An Xbox 360 packet with raw x 0x1234 and raw y -32768: x is reported as
\* 4660 and y as 32767.
C10_Witness ==
    /\ PadSticksDecoded
    /\ xpad.xtype = "Xbox360"
    /\ Signed16At(inp.data, 12) = 4660
    /\ Signed16At(inp.data, 14) = -32768
    /\ Reported("ABS_X") = {4660}
    /\ Reported("ABS_Y") = {32767}

-----------------------------------------------------------------------------
(* Xbox / Xbox 360 frames: triggers, d-pad, sticks *)

\* The values the last decode reported for a key.
ReportedKey(code) ==
    {inp.events[i].value :
        i \in {j \in DOMAIN inp.events :
                   inp.events[j].kind = "key" /\ inp.events[j].code = code}}

\* A full packet decoded by the Xbox / Xbox 360 path.
PadDecoded ==
    /\ Decoding
    /\ xpad.xtype \in {"Xbox", "Xbox360"}
    /\ Len(inp.data) >= XPAD_PKT_LEN

\* 1 for a nonzero byte, 0 for zero.
Pressed(b) == IF b = 0 THEN 0 ELSE 1

OneInputDecoded ==
    /\ Decoding
    /\ xpad.xtype = "XboxOne"
    /\ Len(inp.data) >= 1
    /\ B(inp.data, 0) = GIP_CMD_INPUT
    /\ inp.dec = "ok"

\* The frame holds the four d-pad buttons / the hat pair / none of either.
AllDpadButtons == \A i \in DOMAIN XPAD_BTN_PAD : ReportedKey(XPAD_BTN_PAD[i]) # {}
NoDpadButton == \A i \in DOMAIN XPAD_BTN_PAD : ReportedKey(XPAD_BTN_PAD[i]) = {}
HatPair == Reported("ABS_HAT0X") # {} /\ Reported("ABS_HAT0Y") # {}
NoHat == Reported("ABS_HAT0X") = {} /\ Reported("ABS_HAT0Y") = {}

\* C12: a frame of the Xbox / Xbox 360 path or of the Xbox One main-input
\* path holds the four d-pad buttons and no hat axis exactly when
\* DPAD_TO_BUTTONS is set for the session, the hat pair and no d-pad button
\* exactly when it is unset.
C12_DpadExclusive ==
    (PadDecoded \/ OneInputDecoded) =>
        IF "DPAD_TO_BUTTONS" \in xpad.mapping
        THEN AllDpadButtons /\ NoHat
        ELSE HatPair /\ NoDpadButton

\* The bit of the d-pad byte that DPAD_TO_BUTTONS maps to a button in the
\* Xbox / Xbox 360 layout.
PadBitOf(code) ==
    CHOOSE b \in {1, 2, 4, 8} :
        \E i \in 1..4 : DpadEvents(b, TRUE)[i] = Key(code, TRUE)

\* 1 if the bit of the d-pad button is set in the byte, else 0.
PadBit(buttons, code) == AsInt(Masked(buttons, PadBitOf(code)))

\* C13: with DPAD_TO_BUTTONS unset the Xbox / Xbox 360 path reports
\* hat_x = bit(right) - bit(left) and hat_y = bit(down) - bit(up), over the
\* bits of the d-pad left, right, up and down buttons of XPAD_BTN_PAD; both
\* lie in -1..1.
C13_HatFromDpadBits ==
    (PadDecoded /\ ~params.dpad_to_buttons) =>
        LET b == B(inp.data, 2)
        IN /\ Reported("ABS_HAT0X") =
                 {PadBit(b, XPAD_BTN_PAD[2]) - PadBit(b, XPAD_BTN_PAD[1])}
           /\ Reported("ABS_HAT0Y") =
                 {PadBit(b, XPAD_BTN_PAD[4]) - PadBit(b, XPAD_BTN_PAD[3])}
           /\ Reported("ABS_HAT0X") \subseteq -1..1
           /\ Reported("ABS_HAT0Y") \subseteq -1..1

\* STICKS_TO_NULL as the decoder of the session reads it.
SticksNulled ==
    IF xpad.xtype = "XboxOne" THEN "STICKS_TO_NULL" \in xpad.mapping
    ELSE params.sticks_to_null

\* C14: a frame of the Xbox / Xbox 360 path or of the Xbox One main-input
\* path holds all four stick axes when STICKS_TO_NULL is unset and no stick
\* axis when it is set.
C14_FourSticksOrNone ==
    (PadDecoded \/ OneInputDecoded) =>
        IF SticksNulled
        THEN \A i \in DOMAIN XPAD_ABS : Reported(XPAD_ABS[i]) = {}
        ELSE \A i \in DOMAIN XPAD_ABS : Reported(XPAD_ABS[i]) # {}

-----------------------------------------------------------------------------
(* Xbox 360 Wireless: presence and delegation *)

\* A buffer with its two header bytes handled by a wireless handler.
WirelessDecoded ==
    /\ Decoding
    /\ xpad.xtype = "Xbox360W"
    /\ Len(inp.data) >= 2
    /\ inp.dec = "ok"

\* The status byte has bit 0x08 set: a presence packet.
PresencePacket == WirelessDecoded /\ Masked(B(inp.data, 0), 8)

\* The presence bit the packet carries.
PresenceBit == Masked(B(inp.data, 1), 128)

\* C15: a presence packet signals a presence-change event exactly when its
\* presence bit differs from the stored flag; so of two consecutive presence
\* packets with the same bit the first signals one event if the bit differs
\* from the initial flag and the second, finding the flag equal, none.
C15_PresenceEventOnChange ==
    PresencePacket =>
        /\ inp.work = (IF inp.was_present # PresenceBit THEN 1 ELSE 0)
        /\ xpad.pad_present = PresenceBit

\* C16: a presence packet of a wireless session never produces a frame,
\* whatever its second byte is.
C16_PresencePacketNoFrame ==
    PresencePacket => (inp.events = <<>> /\ ~inp.delegated)

\* C17: the bytes from offset 4 on are handed to the Xbox 360 decoder only
\* when the second byte is 0x01 and the presence flag is true; while the flag
\* is false no frame is produced.
C17_DelegatesOnlyWhenPresent ==
    WirelessDecoded =>
        /\ inp.delegated => (B(inp.data, 1) = 1 /\ xpad.pad_present)
        /\ inp.events # <<>> => (inp.delegated /\ xpad.pad_present)

-----------------------------------------------------------------------------
(* Xbox One: virtual key, firmware info, command 0x21 *)

\* A buffer of an Xbox One session with the given command tag, holding at
\* least len bytes, handed to the decoder.
OneCommand(tag, len) ==
    /\ Decoding
    /\ xpad.xtype = "XboxOne"
    /\ Len(inp.data) >= len
    /\ len >= 1
    /\ B(inp.data, 0) = tag

\* C18: a virtual-key command (five bytes or more, up to its mode byte)
\* reports the mode button from the two low bits of byte 4 and triggers one
\* acknowledgement, echoing byte 2, exactly when byte 1 is
\* GIP_OPT_ACK | GIP_OPT_INTERNAL (0x30); no other command and no other
\* variant triggers one.
C18_AckOnRequest ==
    /\ OneCommand(GIP_CMD_VIRTUAL_KEY, 5) =>
          /\ ReportedKey("BTN_MODE") = {Pressed(B(inp.data, 4) % 4)}
          /\ (inp.ack # -1) <=> (B(inp.data, 1) = 48)
          /\ inp.ack # -1 =>
                /\ inp.ack = B(inp.data, 2)
                /\ out.op = "ack"
                /\ pending.kind = "ack"
                /\ pending.data[1] = GIP_CMD_ACK
                /\ pending.data[3] = B(inp.data, 2)
    /\ (Decoding /\ ~OneCommand(GIP_CMD_VIRTUAL_KEY, 1)) => inp.ack = -1

\* A virtual-key command asking for an acknowledgement with the mode button
\* down: the button is reported and the acknowledgement is the stored
\* output packet.
C18_Witness ==
    /\ OneCommand(GIP_CMD_VIRTUAL_KEY, 5)
    /\ B(inp.data, 1) = 48
    /\ ReportedKey("BTN_MODE") = {1}
    /\ inp.ack = 7
    /\ pending # <<>>
    /\ pending.kind = "ack"

\* The paddle bit i (1..4) of a byte.
PaddleBit(b, i) == (b \div (2 ^ (i - 1))) % 2

\* A firmware-info command long enough for the paddle and the companion
\* byte, on a session of revision Xbe2Fw511.
PaddlesDecoded ==
    OneCommand(GIP_CMD_FIRMWARE, 20) /\ xpad.packet_type = "Xbe2Fw511"

\* C19 as stated: paddles are reported only with revision Xbe2Fw511 and a
\* zero companion byte; any other revision gives no frame, a nonzero
\* companion byte no paddle report.
C19_NoPaddleReportOnCompanion ==
    /\ (OneCommand(GIP_CMD_FIRMWARE, 1) /\ xpad.packet_type # "Xbe2Fw511")
          => inp.events = <<>>
    /\ (PaddlesDecoded /\ B(inp.data, 19) # 0) =>
          \A i \in 1..4 : ReportedKey(XPAD_BTN_PADDLES[i]) = {}

\* C19: with any revision but Xbe2Fw511 a firmware-info command gives no
\* frame; with Xbe2Fw511 the four paddles are reported from the bits of the
\* paddle byte when the companion byte is zero, and all four as released
\* when it is not.
C19_PaddlesReleasedOnCompanion ==
    /\ (OneCommand(GIP_CMD_FIRMWARE, 1) /\ xpad.packet_type # "Xbe2Fw511")
          => inp.events = <<>>
    /\ PaddlesDecoded =>
          \A i \in 1..4 :
              ReportedKey(XPAD_BTN_PADDLES[i]) =
                  {IF B(inp.data, 19) = 0 THEN PaddleBit(B(inp.data, 18), i)
                   ELSE 0}

\* Revision Xbe2Fw511, paddle byte 15, companion byte nonzero: the four
\* paddles are reported as released.
C19_Witness ==
    /\ PaddlesDecoded
    /\ B(inp.data, 18) = 15
    /\ B(inp.data, 19) # 0
    /\ \A i \in 1..4 : ReportedKey(XPAD_BTN_PADDLES[i]) = {0}

\* The low nibble of the d-pad byte of command 0x21.
GhlNibble == B(inp.data, 6) % 16

\* C20: command 0x21 reports the hat vector DPAD_MAPPING[min(n, 8)] of the
\* low nibble n of byte 6, (0, 0) for n from 8 on, both components in -1..1,
\* and no d-pad button, whatever the mapping flags of the session are.
C20_GhlHatFromNibble ==
    OneCommand(33, 7) =>
        LET v == DPAD_MAPPING[(IF GhlNibble <= 8 THEN GhlNibble ELSE 8) + 1]
        IN /\ Reported("ABS_HAT0X") = {v[1]}
           /\ Reported("ABS_HAT0Y") = {v[2]}
           /\ GhlNibble >= 8 =>
                 (Reported("ABS_HAT0X") = {0} /\ Reported("ABS_HAT0Y") = {0})
           /\ Reported("ABS_HAT0X") \subseteq -1..1
           /\ Reported("ABS_HAT0Y") \subseteq -1..1
           /\ NoDpadButton

\* Nibble 15 on a session with DPAD_TO_BUTTONS set: the neutral hat vector
\* and no d-pad button.
C20_Witness ==
    /\ OneCommand(33, 7)
    /\ GhlNibble = 15
    /\ "DPAD_TO_BUTTONS" \in xpad.mapping
    /\ Reported("ABS_HAT0X") = {0}
    /\ Reported("ABS_HAT0Y") = {0}
    /\ NoDpadButton

\* C21: a session whose profile lacks the GHL_XBOXONE quirk produces no
\* frame for command 0x21.
C21_NoFrameWithoutGhlQuirk ==
    (OneCommand(33, 7) /\ "GHL_XBOXONE" \notin xpad.quirks) => inp.events = <<>>

\* The command tags xpadone_process_packet knows.
KnownTags == {GIP_CMD_VIRTUAL_KEY, GIP_CMD_FIRMWARE, GIP_CMD_INPUT, 33}

\* The completion i carried a buffer with a command tag outside KnownTags.
UnknownTag(i) ==
    /\ i.status = "Success"
    /\ Len(i.data) >= 1
    /\ B(i.data, 0) \notin KnownTags

\* C22: an Xbox One completion with an unknown command tag reports nothing,
\* sends nothing, ends without error, leaves the session and the output side
\* as they were, and the receive transfer is submitted again.
C22_UnknownTagIgnored ==
    [][(xpad.xtype = "XboxOne" /\ inp' # inp /\ UnknownTag(inp')) =>
          /\ inp'.events = <<>>
          /\ inp'.ack = -1
          /\ inp'.dec = "ok"
          /\ inp'.resubmitted
          /\ xpad' = xpad
          /\ UNCHANGED outvars]_vars

\* A 20-byte command of tag 3 carrying the acknowledgement-request code, on a
\* session whose init sequence has started: ignored.
C22_Witness ==
    /\ xpad.xtype = "XboxOne"
    /\ UnknownTag(inp)
    /\ Len(inp.data) = 20
    /\ B(inp.data, 1) = 48
    /\ inp.events = <<>>
    /\ inp.dec = "ok"
    /\ xpad.init_seq > 0

\* The bit of the d-pad byte that DPAD_TO_BUTTONS maps to a button in the
\* Xbox One main-input layout.
OneBitOf(code) ==
    CHOOSE b \in {1, 2, 4, 8} :
        \E i \in 1..4 : OneDpadEvents(Pkt(6, 5 :> b), TRUE)[i] = Key(code, TRUE)

OneBit(buttons, code) == AsInt(Masked(buttons, OneBitOf(code)))

\* C23: with DPAD_TO_BUTTONS unset the Xbox One main-input path reports
\* hat_x = bit(right) - bit(left) and hat_y = bit(down) - bit(up) over the
\* bits of the d-pad left, right, up and down buttons of that layout.
C23_OneHatFromDpadBits ==
    (OneInputDecoded /\ "DPAD_TO_BUTTONS" \notin xpad.mapping) =>
        LET b == B(inp.data, 5)
        IN /\ Reported("ABS_HAT0X") =
                 {OneBit(b, XPAD_BTN_PAD[2]) - OneBit(b, XPAD_BTN_PAD[1])}
           /\ Reported("ABS_HAT0Y") =
                 {OneBit(b, XPAD_BTN_PAD[4]) - OneBit(b, XPAD_BTN_PAD[3])}
           /\ NoDpadButton

\* The bits of d-pad left and up set: the hat is (-1, -1).
C23_Witness ==
    /\ OneInputDecoded
    /\ "DPAD_TO_BUTTONS" \notin xpad.mapping
    /\ B(inp.data, 5) = OneBitOf(XPAD_BTN_PAD[1]) + OneBitOf(XPAD_BTN_PAD[3])
    /\ Reported("ABS_HAT0X") = {-1}
    /\ Reported("ABS_HAT0Y") = {-1}

-----------------------------------------------------------------------------
(* Effect commands *)

\* The step is a rumble command that was encoded.
RumbleStep ==
    /\ out'.op = "play_effect"
    /\ out'.ret # "not_supported"
    /\ xpad' # xpad
    /\ UNCHANGED invars

\* C24: a rumble command on an Xbox One session stores a 13-byte packet
\* tagged GIP_CMD_RUMBLE whose motor bytes are strong div 512 and weak div
\* 512 and whose serial byte is the output serial before the call; the
\* counter is then one further (mod 256), which is the serial of the init
\* packet the scheduler stamps in the same call, if it stamps one.
C24_RumbleEncoding ==
    [][RumbleStep =>
          /\ xpad.xtype = "XboxOne"
          /\ pending'.kind = "rumble"
          /\ Len(pending'.data) = 13
          /\ pending'.data[1] = GIP_CMD_RUMBLE
          /\ pending'.data[9] = out'.strong \div 512
          /\ pending'.data[10] = out'.weak \div 512
          /\ pending'.data[3] = xpad.odata_serial
          /\ IF out'.init_serial = -1
             THEN xpad'.odata_serial = (xpad.odata_serial + 1) % 256
             ELSE /\ out'.init_serial = (xpad.odata_serial + 1) % 256
                  /\ xpad'.odata_serial = (xpad.odata_serial + 2) % 256
          /\ (out'.strong = 1024 /\ out'.weak = 0) =>
                (pending'.data[9] = 2 /\ pending'.data[10] = 0)]_vars

\* Rumble{strong: 1024, weak: 0} encoded with serial 255: motor bytes 2 and
\* 0, and the counter wrapped to 0, the serial of the init packet stamped next.
C24_Witness ==
    /\ out.op = "play_effect"
    /\ out.strong = 1024
    /\ out.weak = 0
    /\ pending.kind = "rumble"
    /\ pending.data[9] = 2
    /\ pending.data[10] = 0
    /\ pending.data[3] = 255
    /\ out.init_serial = 0
    /\ xpad.odata_serial = 1

\* C25: a rumble command on a variant other than Xbox One returns the
\* not-supported error, submits nothing, stores nothing and leaves the
\* session, its output serial included, as it was.
C25_NotSupportedNoEffect ==
    [][(out'.op = "play_effect" /\ out' # out /\ xpad.xtype # "XboxOne") =>
          /\ out'.ret = "not_supported"
          /\ out'.submit = "none"
          /\ ~out'.accepted
          /\ out'.init_serial = -1
          /\ xpad' = xpad
          /\ pending' = pending
          /\ inflight' = inflight
          /\ returned' = returned
          /\ transmitted' = transmitted]_vars

\* A session of another variant that has stamped init packets and is then
\* refused a rumble command.
C25_Witness ==
    /\ xpad.xtype = "Xbox360"
    /\ out.op = "play_effect"
    /\ out.ret = "not_supported"
    /\ out.strong = 1024
    /\ xpad.odata_serial = 2
    /\ inflight = 2

-----------------------------------------------------------------------------
(* Session state across operations *)

\* C26: no step moves the packet-type revision of the session to an earlier
\* value of the order of the enum, and a session at Xbe2Fw511 stays there.
C26_RevisionNeverRegresses ==
    [][/\ PacketTypeValue(xpad'.packet_type) >= PacketTypeValue(xpad.packet_type)
       /\ xpad.packet_type = "Xbe2Fw511" => xpad'.packet_type = "Xbe2Fw511"]_vars

\* A session at Xbe2Fw511 that reported paddles from a firmware-info command
\* after its init sequence ran out and a rumble command was stored.
C26_Witness ==
    /\ xpad.packet_type = "Xbe2Fw511"
    /\ OneCommand(GIP_CMD_FIRMWARE, 20)
    /\ ReportedKey(XPAD_BTN_PADDLES[1]) = {1}
    /\ Exhausted
    /\ pending # <<>>
    /\ pending.kind = "rumble"

\* C27 as stated: a full packet decoded by the Xbox / Xbox 360 path takes the
\* branches the mapping flags of its own session select: trigger buttons iff
\* TRIGGERS_TO_BUTTONS, d-pad buttons iff DPAD_TO_BUTTONS, no stick axis iff
\* STICKS_TO_NULL.
C27_BranchesByOwnFlags ==
    PadDecoded =>
        /\ ("TRIGGERS_TO_BUTTONS" \in xpad.mapping) <=> (ReportedKey("BTN_TL2") # {})
        /\ ("DPAD_TO_BUTTONS" \in xpad.mapping)
              <=> (ReportedKey("BTN_TRIGGER_HAPPY1") # {})
        /\ ("STICKS_TO_NULL" \in xpad.mapping) <=> (Reported("ABS_X") = {})

-----------------------------------------------------------------------------
(* Inbound completions and teardown *)

\* The step is an inbound completion with a Disconnected or Cancelled status.
TornDown(i) == i.via = "irq" /\ i.status \in {"Disconnected", "Cancelled"}

\* C28: an inbound completion with a Disconnected or Cancelled status decodes
\* nothing, reports no event, asks for no acknowledgement, changes neither
\* the session nor the output side, returns without an error and leaves the
\* receive transfer unsubmitted; after it no step processes an inbound
\* buffer of the session.
C28_DisconnectEndsInbound ==
    [][/\ (inp' # inp /\ TornDown(inp')) =>
             /\ inp'.dec = "none"
             /\ inp'.events = <<>>
             /\ inp'.ack = -1
             /\ inp'.work = 0
             /\ ~inp'.delegated
             /\ ~inp'.resubmitted
             /\ inp'.ret = "ok"
             /\ ~urb_in'
             /\ xpad' = xpad
             /\ params' = params
             /\ UNCHANGED outvars
       /\ TornDown(inp) => (inp' = inp /\ xpad' = xpad /\ ~urb_in')]_vars

\* A wireless session with a pad connected whose receive transfer was
\* cancelled.
C28_Witness ==
    /\ inp.via = "irq"
    /\ inp.status = "Cancelled"
    /\ ~urb_in
    /\ xpad.xtype = "Xbox360W"
    /\ xpad.pad_present
    /\ inp.was_present

\* C29 as stated: an inbound completion with an error status other than
\* Disconnected or Cancelled, or with a buffer the decoder does not decode,
\* produces no event and the receive transfer is resubmitted.
C29_ResubmittedUnlessTornDown ==
    (inp.via = "irq" /\ (inp.status = "Error" \/ (Decoding /\ inp.dec # "ok")))
        => (inp.events = <<>> /\ inp.resubmitted)

-----------------------------------------------------------------------------
(* The output serial *)

\* The number of rumble packets and of init packets the step stamps.
RumbleStamps == IF out'.op = "play_effect" /\ out'.ret # "not_supported" THEN 1 ELSE 0
InitStamps == IF out'.init_serial # -1 THEN 1 ELSE 0

-----------------------------------------------------------------------------
(* The init cursor *)

\* The step calls the sequencer: every operation of the output side does,
\* once, but a rumble command the variant does not support.
SequencerCalled == out' # out /\ out'.ret # "not_supported"

\* C31: the init cursor never decreases and stays within 0..NumInit; a call
\* of the sequencer that returns nothing leaves the cursor at NumInit and
\* the output serial as it was; a call that returns a packet moves the
\* cursor forward by one or more, to the template returned, every template
\* passed on the way being one that does not apply, and consumes one serial
\* whatever the number of templates passed.
C31_CursorMonotone ==
    [][/\ xpad'.init_seq >= xpad.init_seq
       /\ xpad'.init_seq \in 0..NumInit
       /\ SequencerCalled =>
             IF out'.init_serial = -1
             THEN /\ xpad'.init_seq = NumInit
                  /\ xpad'.odata_serial = (xpad.odata_serial + RumbleStamps) % 256
                  /\ \A i \in (xpad.init_seq + 1)..NumInit : ~ClaimApplies(i)
             ELSE /\ xpad'.init_seq >= xpad.init_seq + 1
                  /\ ClaimApplies(xpad'.init_seq)
                  /\ \A i \in (xpad.init_seq + 1)..(xpad'.init_seq - 1) :
                         ~ClaimApplies(i)
                  /\ xpad'.odata_serial =
                         (xpad.odata_serial + RumbleStamps + 1) % 256]_vars

\* A session for which the second and the last template do not apply: four
\* calls returned templates 1, 3, 4 and 5 with four serials, and the fifth
\* call passed the last template and returned nothing.
C31_Witness ==
    /\ returned = <<1, 3, 4, 5>>
    /\ out.op = "try_send"
    /\ out.got_none
    /\ none_seen = 1
    /\ xpad.init_seq = NumInit
    /\ ~ClaimApplies(NumInit)
    /\ xpad.odata_serial = 4

\* The step is a call of the scheduler whose submission the transport
\* rejected.
Rejected == out' # out /\ out'.ret = "submit_err"

\* C32: when the transport rejects the submission of an init packet the
\* scheduler returns the error with the cursor moved past the template and
\* the serial consumed, no transfer being outstanding for it; no later call
\* returns a template returned before, so the rejected one is never
\* transmitted.
C32_RejectedTemplateDropped ==
    [][/\ Rejected =>
             /\ out'.submit = "init"
             /\ ~out'.accepted
             /\ xpad'.init_seq > xpad.init_seq
             /\ returned' = Append(returned, xpad'.init_seq)
             /\ out'.init_serial = (xpad.odata_serial + RumbleStamps) % 256
             /\ xpad'.odata_serial = (out'.init_serial + 1) % 256
             /\ inflight' <= inflight
             /\ transmitted' = transmitted
       /\ \A i \in DOMAIN returned' :
             i < Len(returned') => returned'[i] < returned'[Len(returned')]
       /\ \/ transmitted' = transmitted
          \/ /\ returned' # returned
             /\ transmitted' = Append(transmitted, returned'[Len(returned')])]_vars

\* The submission of the second init packet was rejected; the third was
\* returned next with the serial after the rejected one's and accepted.
C32_Witness ==
    /\ returned = <<1, 2, 3>>
    /\ transmitted = <<1, 3>>
    /\ out.submit = "init"
    /\ out.accepted
    /\ out.init_serial = 2
    /\ xpad.init_seq = 3

-----------------------------------------------------------------------------
(* The motor scale *)

\* A rumble command was encoded and is the stored packet.
RumbleStored == out.op = "play_effect" /\ pending # <<>> /\ pending.kind = "rumble"

\* C33: the motor byte of a magnitude m of 0..65535 is m div 512 itself (the
\* narrowing to a byte drops nothing), lies in 0..127, is 0 for m below 512
\* and is no smaller for a larger magnitude.
C33_MotorByteInRange ==
    RumbleStored =>
        /\ out.strong \in 0..U16_MAX /\ out.weak \in 0..U16_MAX
        /\ pending.data[9] = out.strong \div 512
        /\ pending.data[10] = out.weak \div 512
        /\ pending.data[9] \in 0..127
        /\ pending.data[10] \in 0..127
        /\ out.strong < 512 => pending.data[9] = 0
        /\ out.weak < 512 => pending.data[10] = 0
        /\ out.strong <= out.weak => pending.data[9] <= pending.data[10]
        /\ out.weak <= out.strong => pending.data[10] <= pending.data[9]

\* The two ends of the range in one command: 65535 encodes to 127, 0 to 0.
C33_Witness ==
    /\ RumbleStored
    /\ out.strong = U16_MAX
    /\ out.weak = 0
    /\ pending.data[9] = 127
    /\ pending.data[10] = 0

-----------------------------------------------------------------------------
(* Xbox 360 Wireless: the presence flag over a packet sequence *)

\* The completion i handed a wireless handler a buffer with a second byte
\* whose status byte has bit 0x08 set.
IsPresencePacket(i) ==
    /\ i.status = "Success"
    /\ Len(i.data) >= 2
    /\ Masked(B(i.data, 0), 8)

\* C34: every step of a wireless session leaves the presence flag equal to
\* bit 0x80 of the second byte when it handles a packet whose status byte
\* has bit 0x08 set, and as it was otherwise; so after any packet sequence
\* the flag is that bit of the most recent such packet, or the initial value.
C34_PresenceFollowsLastPresencePacket ==
    [][xpad.xtype = "Xbox360W" =>
          xpad'.pad_present =
              IF inp' # inp /\ IsPresencePacket(inp')
              THEN Masked(B(inp'.data, 1), 128)
              ELSE xpad.pad_present]_vars

\* A presence packet had set the flag; a later packet without status bit
\* 0x08 and with bit 0x80 of its second byte clear left it set.
C34_Witness ==
    /\ WirelessDecoded
    /\ ~Masked(B(inp.data, 0), 8)
    /\ ~Masked(B(inp.data, 1), 128)
    /\ inp.was_present
    /\ xpad.pad_present

\* C35 as stated: on every buffer the receive path hands to
\* xpad360w_process_packet, UsbXpad::process_packet (its device present),
\* started from the same presence flag, leaves the same flag, signals the
\* same number of presence changes and delegates to the Xbox 360 decoder
\* alike.
C35_WirelessHandlersAgree ==
    (WirelessDecoded /\ inp.via = "irq") =>
        LET before == [xpad EXCEPT !.pad_present = inp.was_present]
            older == UsbXpad_process_packet(params, before, inp.data, TRUE)
        IN /\ older.ret = "ok"
           /\ older.present = xpad.pad_present
           /\ older.work = inp.work
           /\ older.delegated = inp.delegated

-----------------------------------------------------------------------------
(* The Mutexes of the session *)

\* Some caller can take a step.
CanStep ==
    \E t \in Threads :
        \/ pc[t].at \in {"scan", "unlock_odata"}
        \/ pc[t].at = "lock_odata" /\ lock.odata = 0
        \/ pc[t].at = "lock_init_seq" /\ lock.init_seq = 0

\* init_seq is held only by the holder of odata; a caller about to take a
\* Mutex does not hold it, and the one about to take init_seq holds odata
\* and finds init_seq free; while a caller is inside an operation some
\* caller can take a step.
LockOrder ==
    /\ lock.init_seq # 0 => lock.odata = lock.init_seq
    /\ \A t \in Threads :
          /\ pc[t].at = "lock_odata" => (lock.odata # t /\ lock.init_seq # t)
          /\ pc[t].at = "lock_init_seq" => (lock.odata = t /\ lock.init_seq = 0)
          /\ pc[t].at = "scan" => (lock.odata = t /\ lock.init_seq = t)
          /\ pc[t].at = "unlock_odata" => (lock.odata = t /\ lock.init_seq # t)
          /\ pc[t].at = "idle" => (lock.odata # t /\ lock.init_seq # t)
    /\ (\E t \in Threads : pc[t].at # "idle") => CanStep

====
